---- MODULE Spec2Model ----
(***************************************************************************)
(* SLR(1) parser table generator (src/app.py).                             *)
(*                                                                         *)
(* The script is one sequential pipeline: get_grammar, augment_grammar,    *)
(* generate_lr0_items (closure / goto / worklist), compute_first,          *)
(* compute_follow, generate_slr1_parsing_table.  The model follows the     *)
(* script statement by statement; pc is the position in the script.        *)
(*                                                                         *)
(* Representation.                                                         *)
(*  - A grammar text is a sequence of lines, a line a sequence of          *)
(*    whitespace-separated tokens ("->" and "|" are tokens of their own).  *)
(*  - A Python dict keeps insertion order: a grammar is a record           *)
(*    [keys |-> sequence of nonterminals, prods |-> key -> productions].   *)
(*  - An item is <<lhs, rhs, dot_pos>>, a state a set of items.            *)
(*  - State ids are 0-based as in the code: state i is states[i + 1].      *)
(*  - Iteration over a Python set has no fixed order (string hashes are    *)
(*    randomised per run): every such loop picks its next element          *)
(*    nondeterministically.                                                *)
(***************************************************************************)
EXTENDS Naturals, Sequences, FiniteSets, TLC

VARIABLES
    grammar_input,      \* the text of the sidebar text area
    grammar,            \* get_grammar's result
    augmented_grammar,  \* augment_grammar's result
    pc,                 \* position in the script
    closure_set,        \* closure(): the set being closed
    added,              \* closure(): the loop flag
    states,             \* generate_lr0_items: list of item sets
    state_indices,      \* generate_lr0_items: item set -> state id
    transitions,        \* generate_lr0_items: <<state id, symbol>> -> state id
    queue,              \* generate_lr0_items: the worklist
    state,              \* generate_lr0_items: the state popped last
    symbols,            \* generate_lr0_items: symbols of the for loop still to visit
    symbol,             \* generate_lr0_items: the symbol whose goto is being closed
    first,              \* FIRST memo table
    follow,             \* FOLLOW memo table
    parsing_table,      \* action table: state id -> (terminal -> action)
    goto_table,         \* goto table: state id -> (nonterminal -> state id)
    row,                \* generate_slr1_parsing_table: state id of the outer loop
    pending             \* generate_slr1_parsing_table: items of the row still to visit

vars == <<grammar_input, grammar, augmented_grammar, pc, closure_set, added,
          states, state_indices, transitions, queue, state, symbols, symbol,
          first, follow, parsing_table, goto_table, row, pending>>

-----------------------------------------------------------------------------
(* Bounds and inputs *)

\* Size of a generated grammar text: each line counts 1 plus the number of
\* tokens after its "->".
MaxSize == 4

\* Largest item set closure is applied to as a function of arbitrary item sets.
MaxSeed == 2

Arrow == "->"
Bar == "|"
Epsilon == "ε"
EndMarker == "$"
AugStart == "S'"

\* Tokens of the generated texts.  Every line of an input has one token before
\* its "->" and at most one "->".
LhsNames == {"S", "A"}
BodyTokens == {"S", "A", "a", Bar}

SeqsOfLen(S, k) == [1..k -> S]

LinesOfBody(k) == {<<l, Arrow>> \o b : l \in LhsNames, b \in SeqsOfLen(BodyTokens, k)}

RECURSIVE TextsUpTo(_)
TextsUpTo(n) ==
    {<<>>} \cup
    UNION {{<<ln>> \o t : ln \in LinesOfBody(k), t \in TextsUpTo(n - 1 - k)} :
           k \in 0..(n - 1)}

GeneratedTexts == TextsUpTo(MaxSize)

\* The default content of the text area.
ClassicText ==
    << <<"E", Arrow, "E", "+", "T", Bar, "T">>,
       <<"T", Arrow, "T", "*", "F", Bar, "F">>,
       <<"F", Arrow, "(", "E", ")", Bar, "id">> >>

\* The example the sidebar shows.
SidebarExample ==
    << <<"S", Arrow, "A", "B">>,
       <<"A", Arrow, "a", Bar, Epsilon>>,
       <<"B", Arrow, "b">> >>

\* The same grammar with the nullable alternative written as an empty alternative.
EmptyAltExample ==
    << <<"S", Arrow, "A", "B">>,
       <<"A", Arrow, "a", Bar>>,
       <<"B", Arrow, "b">> >>

\* A grammar that names one of its own nonterminals S'.
CollisionText == << <<"S", Arrow, AugStart, "a">>, <<AugStart, Arrow, "b">> >>

\* Mutually recursive nonterminals.
MutualText == << <<"S", Arrow, "A", Bar, "a">>, <<"A", Arrow, "S", Bar, "b">> >>

\* Cyclic FOLLOW dependencies.
FollowCycleText == << <<"S", Arrow, "A">>, <<"A", Arrow, "S", Bar, "S", "b">> >>

\* A nullable symbol in the middle of a right-hand side.
NullableMiddleText == << <<"S", Arrow, "A", "B", "c">>, <<"A", Arrow, "a">>, <<"B", Arrow, Bar, "b">> >>

\* Ambiguous grammars: shift/reduce and reduce/reduce.
ShiftReduceText == << <<"S", Arrow, "S", "S", Bar, "a">> >>
ReduceReduceText == << <<"S", Arrow, "A", Bar, "a">>, <<"A", Arrow, "a">> >>

\* A line without "->".
InvalidText == << <<"S", Arrow, "a">>, <<"A", "a">> >>

NamedTexts == {ClassicText, SidebarExample, EmptyAltExample, CollisionText, MutualText,
               FollowCycleText, NullableMiddleText, ShiftReduceText, ReduceReduceText,
               InvalidText}

Inputs == GeneratedTexts \cup NamedTexts

-----------------------------------------------------------------------------
(* Helpers for Python containers *)

Range(s) == {s[i] : i \in DOMAIN s}

Contains(s, x) == \E i \in DOMAIN s : s[i] = x

\* Position of the first x in s (x occurs in s).
IndexOf(s, x) == CHOOSE i \in DOMAIN s : s[i] = x /\ \A j \in 1..(i - 1) : s[j] # x

\* f with key k set to v (dict item assignment on the value part).
Put(f, k, v) == [x \in (DOMAIN f) \cup {k} |-> IF x = k THEN v ELSE f[x]]

EmptyMap == [x \in {} |-> {}]

\* None and the empty dict are both falsy.
NoGrammar == [keys |-> <<>>, prods |-> EmptyMap]

Keys(g) == Range(g.keys)

-----------------------------------------------------------------------------
(* get_grammar *)

\* rhs.split('|'), each part .strip().split(): the alternatives of a token sequence.
RECURSIVE SplitBars(_, _, _)
SplitBars(toks, i, cur) ==
    IF i > Len(toks) THEN <<cur>>
    ELSE IF toks[i] = Bar THEN <<cur>> \o SplitBars(toks, i + 1, <<>>)
    ELSE SplitBars(toks, i + 1, Append(cur, toks[i]))

\* The lines of the text: "".split("\n") is [""], one empty line.
LinesOf(text) == IF text = <<>> THEN << <<>> >> ELSE text

\* One pass of the for loop over lines i..; g is the dictionary so far.
RECURSIVE ParseLines(_, _, _)
ParseLines(lines, i, g) ==
    IF i > Len(lines) THEN g
    ELSE IF ~Contains(lines[i], Arrow) THEN NoGrammar
    ELSE LET p == IndexOf(lines[i], Arrow)
             lhs == lines[i][1]
             rhs_productions == SplitBars(SubSeq(lines[i], p + 1, Len(lines[i])), 1, <<>>)
             g2 == IF lhs \in Keys(g)
                     THEN [g EXCEPT !.prods[lhs] = @ \o rhs_productions]
                     ELSE [keys |-> Append(g.keys, lhs),
                           prods |-> Put(g.prods, lhs, rhs_productions)]
         IN ParseLines(lines, i + 1, g2)

get_grammar(grammar_text) == ParseLines(LinesOf(grammar_text), 1, NoGrammar)

-----------------------------------------------------------------------------
(* augment_grammar *)

\* {"S'": [[start_symbol]]} updated with grammar: S' stays the first key, and a
\* key S' of grammar replaces the value.
augment_grammar(g) ==
    LET start_symbol == g.keys[1]
    IN [keys |-> <<AugStart>> \o SelectSeq(g.keys, LAMBDA k : k # AugStart),
        prods |-> [k \in {AugStart} \cup Keys(g) |->
                      IF k \in Keys(g) THEN g.prods[k] ELSE << <<start_symbol>> >>]]

-----------------------------------------------------------------------------
(* closure and goto *)

\* An item is <<lhs, rhs, dot_pos>>.
Lhs(it) == it[1]
Rhs(it) == it[2]
Dot(it) == it[3]

\* rhs[dot_pos] for an item with dot_pos < len(rhs).
AfterDot(it) == Rhs(it)[Dot(it) + 1]

\* NewItems with only the first production of each nonterminal
\* (grammar[symbol][0] in place of the loop of line 64).
NewItemsFirstProduction(cset, g) ==
    {<<AfterDot(it), g.prods[AfterDot(it)][1], 0>> :
        it \in {i \in cset : Dot(i) < Len(Rhs(i)) /\ AfterDot(i) \in Keys(g)}}
    \ cset

\* The items one pass of the while loop collects in new_items.
NewItems(cset, g) ==
    UNION {{<<AfterDot(it), g.prods[AfterDot(it)][p], 0>> : p \in DOMAIN g.prods[AfterDot(it)]} :
           it \in {i \in cset : Dot(i) < Len(Rhs(i)) /\ AfterDot(i) \in Keys(g)}}
    \ cset

\* closure(items, grammar) as a function: the while loop run to its end.
RECURSIVE closure(_, _)
closure(items, g) ==
    LET new_items == NewItems(items, g)
    IN IF new_items = {} THEN items ELSE closure(items \cup new_items, g)

\* goto's next_items: the items of the set with the dot moved over the symbol.
NextItems(items, sym) ==
    {<<Lhs(it), Rhs(it), Dot(it) + 1>> :
        it \in {i \in items : Dot(i) < Len(Rhs(i)) /\ AfterDot(i) = sym}}

goto(items, sym, g) ==
    IF NextItems(items, sym) # {} THEN closure(NextItems(items, sym), g) ELSE {}

\* The symbols after a dot in a state (line 94).
SymbolsOf(st) == {AfterDot(it) : it \in {i \in st : Dot(i) < Len(Rhs(i))}}

-----------------------------------------------------------------------------
(* The script, up to the end of generate_lr0_items *)

Init ==
    /\ grammar_input \in Inputs
    /\ grammar = NoGrammar
    /\ augmented_grammar = NoGrammar
    /\ pc = "get_grammar"
    /\ closure_set = {}
    /\ added = FALSE
    /\ states = <<>>
    /\ state_indices = EmptyMap
    /\ transitions = EmptyMap
    /\ queue = <<>>
    /\ state = {}
    /\ symbols = {}
    /\ symbol = ""
    /\ first = EmptyMap
    /\ follow = EmptyMap
    /\ parsing_table = <<>>
    /\ goto_table = <<>>
    /\ row = 0
    /\ pending = {}

\* Lines 35-38: parse the text; a falsy grammar stops the script.
ParseInput ==
    /\ pc = "get_grammar"
    /\ grammar' = get_grammar(grammar_input)
    /\ pc' = IF grammar' = NoGrammar THEN "stopped" ELSE "augment"
    /\ UNCHANGED <<grammar_input, augmented_grammar, closure_set, added, states,
                   state_indices, transitions, queue, state, symbols, symbol,
                   first, follow, parsing_table, goto_table, row, pending>>

\* Line 51.
Augment ==
    /\ pc = "augment"
    /\ augmented_grammar' = augment_grammar(grammar)
    /\ pc' = "lr0"
    /\ UNCHANGED <<grammar_input, grammar, closure_set, added, states,
                   state_indices, transitions, queue, state, symbols, symbol,
                   first, follow, parsing_table, goto_table, row, pending>>

\* Lines 82-84 and 55-56: the initial item, and the call of closure on it.
Lr0Start ==
    /\ pc = "lr0"
    /\ LET start_symbol == augmented_grammar.keys[1]
           initial_item == <<start_symbol, augmented_grammar.prods[start_symbol][1], 0>>
       IN closure_set' = {initial_item}
    /\ added' = TRUE
    /\ pc' = "closure_init"
    /\ UNCHANGED <<grammar_input, grammar, augmented_grammar, states,
                   state_indices, transitions, queue, state, symbols, symbol,
                   first, follow, parsing_table, goto_table, row, pending>>

\* Lines 57-69: one iteration of closure's while loop.
ClosurePass ==
    /\ pc \in {"closure_init", "closure_goto"}
    /\ added
    /\ LET new_items == NewItems(closure_set, augmented_grammar)
       IN /\ closure_set' = closure_set \cup new_items
          /\ added' = (new_items # {})
    /\ UNCHANGED <<grammar_input, grammar, augmented_grammar, pc, states,
                   state_indices, transitions, queue, state, symbols, symbol,
                   first, follow, parsing_table, goto_table, row, pending>>

\* Lines 70 and 84-90: closure returns the initial state; the lists are set up.
Lr0Init ==
    /\ pc = "closure_init"
    /\ ~added
    /\ states' = <<closure_set>>
    /\ state_indices' = Put(EmptyMap, closure_set, 0)
    /\ transitions' = EmptyMap
    /\ queue' = <<closure_set>>
    /\ pc' = "while"
    /\ UNCHANGED <<grammar_input, grammar, augmented_grammar, closure_set, added,
                   state, symbols, symbol,
                   first, follow, parsing_table, goto_table, row, pending>>

\* Lines 91-94: pop the next state and collect its symbols.
Pop ==
    /\ pc = "while"
    /\ queue # <<>>
    /\ state' = Head(queue)
    /\ queue' = Tail(queue)
    /\ symbols' = SymbolsOf(Head(queue))
    /\ pc' = IF symbols' = {} THEN "while" ELSE "for"
    /\ UNCHANGED <<grammar_input, grammar, augmented_grammar, closure_set, added,
                   states, state_indices, transitions, symbol,
                   first, follow, parsing_table, goto_table, row, pending>>

\* Lines 96-97 and 74-78: the next symbol of the for loop (a set: any order),
\* goto's next_items, and the call of closure on them.
ForSymbol ==
    /\ pc = "for"
    /\ \E s \in symbols :
          /\ symbol' = s
          /\ symbols' = symbols \ {s}
          /\ closure_set' = NextItems(state, s)
          /\ added' = (NextItems(state, s) # {})
    /\ pc' = "closure_goto"
    /\ UNCHANGED <<grammar_input, grammar, augmented_grammar,
                   states, state_indices, transitions, queue, state,
                   first, follow, parsing_table, goto_table, row, pending>>

\* Record without the lookup of line 99: new_state is appended every time.
RecordNoLookup ==
    /\ pc = "closure_goto"
    /\ ~added
    /\ states' = Append(states, closure_set)
    /\ state_indices' = Put(state_indices, closure_set, Len(states))
    /\ queue' = Append(queue, closure_set)
    /\ transitions' = Put(transitions, <<state_indices[state], symbol>>, Len(states))
    /\ pc' = IF symbols = {} THEN "while" ELSE "for"
    /\ UNCHANGED <<grammar_input, grammar, augmented_grammar, closure_set, added,
                   state, symbols, symbol,
                   first, follow, parsing_table, goto_table, row, pending>>

\* Lines 70, 78 and 99-107: goto returns new_state; it is looked up or appended,
\* and the transition is recorded.
Record ==
    /\ pc = "closure_goto"
    /\ ~added
    /\ LET new_state == closure_set
           state_index == state_indices[state]
           known == new_state \in DOMAIN state_indices
           new_index == IF known THEN state_indices[new_state] ELSE Len(states)
       IN /\ states' = IF known THEN states ELSE Append(states, new_state)
          /\ state_indices' = IF known THEN state_indices
                              ELSE Put(state_indices, new_state, new_index)
          /\ queue' = IF known THEN queue ELSE Append(queue, new_state)
          /\ transitions' = Put(transitions, <<state_index, symbol>>, new_index)
    /\ pc' = IF symbols = {} THEN "while" ELSE "for"
    /\ UNCHANGED <<grammar_input, grammar, augmented_grammar, closure_set, added,
                   state, symbols, symbol,
                   first, follow, parsing_table, goto_table, row, pending>>

\* Line 109: the worklist is empty.
Lr0Return ==
    /\ pc = "while"
    /\ queue = <<>>
    /\ pc' = "first"
    /\ UNCHANGED <<grammar_input, grammar, augmented_grammar, closure_set, added,
                   states, state_indices, transitions, queue, state, symbols, symbol,
                   first, follow, parsing_table, goto_table, row, pending>>

-----------------------------------------------------------------------------
(* compute_first *)

\* first[symbol].add(x) / .update(xs)
AddTo(m, k, xs) == [m EXCEPT ![k] = @ \cup xs]

RECURSIVE compute_first(_, _, _)
RECURSIVE FirstSubSymbols(_, _, _, _, _)
RECURSIVE FirstProductions(_, _, _, _)

\* Lines 124-134: the for loop over production[i..], with its else clause.
FirstSubSymbols(g, sym, production, i, fst) ==
    IF i > Len(production) THEN AddTo(fst, sym, {Epsilon})
    ELSE LET sub_symbol == production[i]
         IN IF sub_symbol \notin Keys(g)
              THEN AddTo(fst, sym, {sub_symbol})
              ELSE LET after_call == compute_first(g, sub_symbol, fst)
                       updated == AddTo(after_call, sym, after_call[sub_symbol] \ {Epsilon})
                   IN IF Epsilon \notin updated[sub_symbol]
                        THEN updated
                        ELSE FirstSubSymbols(g, sym, production, i + 1, updated)

\* Lines 120-134: the for loop over the productions p.. of the symbol.
FirstProductions(g, sym, p, fst) ==
    IF p > Len(g.prods[sym]) THEN fst
    ELSE LET production == g.prods[sym][p]
         IN IF production = <<"">>
              THEN FirstProductions(g, sym, p + 1, AddTo(fst, sym, {Epsilon}))
              ELSE FirstProductions(g, sym, p + 1,
                                    FirstSubSymbols(g, sym, production, 1, fst))

\* Lines 115-136; the memo table goes in and comes out.
compute_first(g, sym, fst) ==
    IF sym \in DOMAIN fst THEN fst
    ELSE FirstProductions(g, sym, 1, Put(fst, sym, {}))

\* Lines 138-139: for nt in grammar: compute_first(nt)
RECURSIVE FirstAll(_, _, _)
FirstAll(g, k, fst) ==
    IF k > Len(g.keys) THEN fst
    ELSE FirstAll(g, k + 1, compute_first(g, g.keys[k], fst))

-----------------------------------------------------------------------------
(* compute_follow *)

RECURSIVE compute_follow(_, _, _, _)
RECURSIVE FollowOccurrence(_, _, _, _, _, _, _)
RECURSIVE FollowLoop(_, _, _, _, _, _, _)

\* Lines 155-166: rhs[i] is the symbol.
FollowOccurrence(g, fst, sym, lhs, rhs, i, fol) ==
    IF i < Len(rhs)
      THEN LET next_symbol == rhs[i + 1]
           IN IF next_symbol \notin Keys(g)
                THEN AddTo(fol, sym, {next_symbol})
                ELSE LET with_first == AddTo(fol, sym, fst[next_symbol] \ {Epsilon})
                     IN IF Epsilon \in fst[next_symbol]
                          THEN LET after_call == compute_follow(g, fst, lhs, with_first)
                               IN AddTo(after_call, sym, after_call[lhs])
                          ELSE with_first
      ELSE IF lhs # sym
             THEN LET after_call == compute_follow(g, fst, lhs, fol)
                  IN AddTo(after_call, sym, after_call[lhs])
             ELSE fol

\* Lines 151-166: the loops over grammar.items(), rhs_list and enumerate(rhs),
\* at key k, alternative r, position i.
FollowLoop(g, fst, sym, k, r, i, fol) ==
    IF k > Len(g.keys) THEN fol
    ELSE LET lhs == g.keys[k]
             rhs_list == g.prods[lhs]
         IN IF r > Len(rhs_list) THEN FollowLoop(g, fst, sym, k + 1, 1, 1, fol)
            ELSE IF i > Len(rhs_list[r]) THEN FollowLoop(g, fst, sym, k, r + 1, 1, fol)
            ELSE FollowLoop(g, fst, sym, k, r, i + 1,
                            IF rhs_list[r][i] = sym
                              THEN FollowOccurrence(g, fst, sym, lhs, rhs_list[r], i, fol)
                              ELSE fol)

\* Lines 143-168.
compute_follow(g, fst, sym, fol) ==
    IF sym \in DOMAIN fol THEN fol
    ELSE FollowLoop(g, fst, sym, 1, 1, 1,
                    Put(fol, sym, IF sym = g.keys[1] THEN {EndMarker} ELSE {}))

\* Lines 170-171: for nt in grammar: compute_follow(nt)
RECURSIVE FollowAll(_, _, _, _)
FollowAll(g, fst, k, fol) ==
    IF k > Len(g.keys) THEN fol
    ELSE FollowAll(g, fst, k + 1, compute_follow(g, fst, g.keys[k], fol))

\* Lines 114, 138-139.
ComputeFirst ==
    /\ pc = "first"
    /\ first' = FirstAll(grammar, 1, EmptyMap)
    /\ pc' = "follow"
    /\ UNCHANGED <<grammar_input, grammar, augmented_grammar, closure_set, added,
                   states, state_indices, transitions, queue, state, symbols, symbol,
                   follow, parsing_table, goto_table, row, pending>>

\* Lines 142, 170-171.
ComputeFollow ==
    /\ pc = "follow"
    /\ follow' = FollowAll(grammar, first, 1, EmptyMap)
    /\ pc' = "table"
    /\ UNCHANGED <<grammar_input, grammar, augmented_grammar, closure_set, added,
                   states, state_indices, transitions, queue, state, symbols, symbol,
                   first, parsing_table, goto_table, row, pending>>

-----------------------------------------------------------------------------
(* generate_slr1_parsing_table *)

\* The table entries: f"S{next_state}", 'ACC', f"R({lhs} -> {' '.join(rhs)})".
Shift(n) == [kind |-> "S", target |-> n]
Accept == [kind |-> "ACC"]
Reduce(lhs, rhs) == [kind |-> "R", lhs |-> lhs, rhs |-> rhs]

\* CompleteItems with <= in place of the == of line 186.
CompleteItemsLessEqual(items) == {it \in items : Dot(it) <= Len(Rhs(it))}

\* The items line 186 lets through.
CompleteItems(items) == {it \in items : Dot(it) = Len(Rhs(it))}

\* Lines 178-182 for one state: the symbols with a transition from it.
MovesFrom(tr, s) == {k[2] : k \in {x \in DOMAIN tr : x[1] = s}}

\* Lines 187-191: the writes of one item into the row of its state.
WriteItem(table_row, it, fol) ==
    IF Lhs(it) = AugStart
      THEN Put(table_row, EndMarker, Accept)
      ELSE [t \in (DOMAIN table_row) \cup fol[Lhs(it)] |->
               IF t \in fol[Lhs(it)] THEN Reduce(Lhs(it), Rhs(it)) ELSE table_row[t]]

\* Lines 175-182: both tables are created and the transitions are entered.
TableInit ==
    /\ pc = "table"
    /\ parsing_table' =
          [s \in 1..Len(states) |->
              [sym \in {x \in MovesFrom(transitions, s - 1) : x \notin Keys(grammar)} |->
                  Shift(transitions[<<s - 1, sym>>])]]
    /\ goto_table' =
          [s \in 1..Len(states) |->
              [sym \in {x \in MovesFrom(transitions, s - 1) : x \in Keys(grammar)} |->
                  transitions[<<s - 1, sym>>]]]
    /\ row' = 0
    /\ pending' = CompleteItems(states[1])
    /\ pc' = "items"
    /\ UNCHANGED <<grammar_input, grammar, augmented_grammar, closure_set, added,
                   states, state_indices, transitions, queue, state, symbols, symbol,
                   first, follow>>

\* Lines 185-191: the next item of the row (a set: any order).  Items with the
\* dot before the end fail the test of line 186 and change nothing; they are
\* left out of pending.
TableItem ==
    /\ pc = "items"
    /\ \E it \in pending :
          /\ parsing_table' = [parsing_table EXCEPT ![row + 1] = WriteItem(@, it, follow)]
          /\ pending' = pending \ {it}
    /\ UNCHANGED <<grammar_input, grammar, augmented_grammar, pc, closure_set, added,
                   states, state_indices, transitions, queue, state, symbols, symbol,
                   first, follow, goto_table, row>>

\* Line 184: the next state of the outer loop.
TableNextRow ==
    /\ pc = "items"
    /\ pending = {}
    /\ row + 1 < Len(states)
    /\ row' = row + 1
    /\ pending' = CompleteItems(states[row + 2])
    /\ UNCHANGED <<grammar_input, grammar, augmented_grammar, pc, closure_set, added,
                   states, state_indices, transitions, queue, state, symbols, symbol,
                   first, follow, parsing_table, goto_table>>

\* Line 193.
TableReturn ==
    /\ pc = "items"
    /\ pending = {}
    /\ row + 1 >= Len(states)
    /\ pc' = "done"
    /\ UNCHANGED <<grammar_input, grammar, augmented_grammar, closure_set, added,
                   states, state_indices, transitions, queue, state, symbols, symbol,
                   first, follow, parsing_table, goto_table, row, pending>>

Next ==
    \/ ParseInput
    \/ Augment
    \/ Lr0Start
    \/ ClosurePass
    \/ Lr0Init
    \/ Pop
    \/ ForSymbol
    \/ Record
    \/ Lr0Return
    \/ ComputeFirst
    \/ ComputeFollow
    \/ TableInit
    \/ TableItem
    \/ TableNextRow
    \/ TableReturn

Spec == Init /\ [][Next]_vars

\* The script is sequential: it always takes its next step.
FairSpec == Spec /\ WF_vars(Next)

-----------------------------------------------------------------------------
(* Reference definitions used by the properties *)

\* generate_slr1_parsing_table returns the pair (parsing_table, goto_table):
\* its result has no conflict list.
ReportedConflicts == {}

StateOf(i) == states[i + 1]

AfterAugment == pc \notin {"get_grammar", "stopped", "augment"}
InLr0 == pc \in {"while", "for", "closure_goto"}
AfterLr0 == pc \in {"first", "follow", "table", "items", "done"}
AfterFirst == pc \in {"follow", "table", "items", "done"}
AfterFollow == pc \in {"table", "items", "done"}

\* An item set that holds (N, production, 0) for every production of every
\* nonterminal N right after a dot.
IsClosed(T, g) ==
    \A it \in T :
        (Dot(it) < Len(Rhs(it)) /\ AfterDot(it) \in Keys(g)) =>
            \A p \in DOMAIN g.prods[AfterDot(it)] :
                <<AfterDot(it), g.prods[AfterDot(it)][p], 0>> \in T

\* R is the least closed superset of S.
IsLeastClosure(R, S, g) ==
    /\ S \subseteq R
    /\ IsClosed(R, g)
    /\ \A X \in SUBSET (R \ S) : IsClosed(S \cup X, g) => S \cup X = R

\* The seed of the closure call in progress.
ClosureSeed ==
    IF pc = "closure_init"
      THEN {<<augmented_grammar.keys[1],
              augmented_grammar.prods[augmented_grammar.keys[1]][1], 0>>}
      ELSE NextItems(state, symbol)

\* FIRST of the sequence seq[i..] under the assignment F to the nonterminals.
RECURSIVE SeqFirst(_, _, _, _)
SeqFirst(g, F, seq, i) ==
    IF i > Len(seq) THEN {Epsilon}
    ELSE LET fx == IF seq[i] \in Keys(g) THEN F[seq[i]] ELSE {seq[i]}
         IN (fx \ {Epsilon}) \cup
            (IF Epsilon \in fx THEN SeqFirst(g, F, seq, i + 1) ELSE {})

FirstStep(g, F) ==
    [n \in Keys(g) |-> UNION {SeqFirst(g, F, g.prods[n][p], 1) : p \in DOMAIN g.prods[n]}]

RECURSIVE FirstFix(_, _)
FirstFix(g, F) == IF FirstStep(g, F) = F THEN F ELSE FirstFix(g, FirstStep(g, F))

\* The least fixpoint of the FIRST equations.
LeastFirst(g) == FirstFix(g, [n \in Keys(g) |-> {}])

\* The occurrences <<lhs, alternative, position>> of x in right-hand sides.
Occurrences(g, x) ==
    {o \in UNION {UNION {{<<n, p, i>> : i \in DOMAIN g.prods[n][p]} :
                         p \in DOMAIN g.prods[n]} : n \in Keys(g)} :
        g.prods[o[1]][o[2]][o[3]] = x}

FollowStep(g, Fi, Fo) ==
    [x \in Keys(g) |->
        (IF x = g.keys[1] THEN {EndMarker} ELSE {}) \cup
        UNION {LET beta == SeqFirst(g, Fi, g.prods[o[1]][o[2]], o[3] + 1)
               IN (beta \ {Epsilon}) \cup (IF Epsilon \in beta THEN Fo[o[1]] ELSE {}) :
               o \in Occurrences(g, x)}]

RECURSIVE FollowFix(_, _, _)
FollowFix(g, Fi, Fo) ==
    IF FollowStep(g, Fi, Fo) = Fo THEN Fo ELSE FollowFix(g, Fi, FollowStep(g, Fi, Fo))

\* The least solution of the FOLLOW equations over the least FIRST sets.
LeastFollow(g) == FollowFix(g, LeastFirst(g), [n \in Keys(g) |-> {}])

-----------------------------------------------------------------------------
(* Properties *)

\* C1: whenever table construction replaces the action of a cell (state,
\* terminal) by a different action, the builder's result holds a conflict
\* report naming that state and that symbol.
C1_ConflictsReported ==
    [][\A s \in DOMAIN parsing_table : \A t \in DOMAIN parsing_table[s] :
          (pc = "items" /\ parsing_table'[s][t] # parsing_table[s][t]) =>
              \E c \in ReportedConflicts : c.state = s - 1 /\ c.symbol = t]_vars

\* C2: once compute_first has run for all nonterminals, the FIRST table is the
\* least fixpoint of the FIRST equations.
C2_FirstIsLeastFixpoint == AfterFirst => first = LeastFirst(grammar)

\* C3: once compute_follow has run for all nonterminals, the FOLLOW table is
\* the least solution of the FOLLOW equations.
C3_FollowIsLeastFixpoint == AfterFollow => follow = LeastFollow(grammar)

\* Part of C4 that does not depend on the start production: the states are
\* pairwise distinct, state_indices numbers them, every recorded transition
\* leads to the id of goto(state, symbol), and in the result every goto of a
\* listed state is listed and recorded.
Lr0Automaton ==
    (InLr0 \/ AfterLr0) =>
        /\ \A i, j \in DOMAIN states : states[i] = states[j] => i = j
        /\ DOMAIN state_indices = Range(states)
        /\ \A i \in DOMAIN states : state_indices[states[i]] = i - 1
        /\ \A k \in DOMAIN transitions :
              /\ k[1] \in 0..(Len(states) - 1)
              /\ transitions[k] \in 0..(Len(states) - 1)
              /\ StateOf(transitions[k]) = goto(StateOf(k[1]), k[2], augmented_grammar)
        /\ AfterLr0 =>
              \A i \in DOMAIN states : \A sym \in SymbolsOf(states[i]) :
                  /\ <<i - 1, sym>> \in DOMAIN transitions
                  /\ goto(states[i], sym, augmented_grammar) \in Range(states)

\* C4: at every step of generate_lr0_items and in its result, state 0 is the
\* closure of the item (S' -> Start, 0), the states are pairwise distinct,
\* every goto of a listed state is listed, and transitions maps each (state
\* id, symbol) to the id of goto(state, symbol).
C4_CanonicalCollection ==
    /\ (InLr0 \/ AfterLr0) =>
          StateOf(0) = closure({<<AugStart, <<grammar.keys[1]>>, 0>>}, augmented_grammar)
    /\ Lr0Automaton

\* C5: in the returned tables every transition on a terminal is the Shift of
\* its action cell, every transition on a nonterminal is its goto cell, and
\* the goto table has no other entry.
C5_TransitionsInTable ==
    pc = "done" =>
        /\ \A k \in DOMAIN transitions :
              IF k[2] \in Keys(grammar)
                THEN /\ k[2] \in DOMAIN goto_table[k[1] + 1]
                     /\ goto_table[k[1] + 1][k[2]] = transitions[k]
                ELSE /\ k[2] \in DOMAIN parsing_table[k[1] + 1]
                     /\ parsing_table[k[1] + 1][k[2]] = Shift(transitions[k])
        /\ \A s \in DOMAIN goto_table : \A x \in DOMAIN goto_table[s] :
              /\ <<s - 1, x>> \in DOMAIN transitions
              /\ goto_table[s][x] = transitions[<<s - 1, x>>]

\* C6: the augmented grammar keeps every nonterminal with its productions and
\* adds exactly one production Start' -> Start, whose left-hand side is the
\* first key and is not a nonterminal of the input grammar.
C6_FreshStart ==
    AfterAugment =>
        /\ \A k \in Keys(grammar) :
              k \in Keys(augmented_grammar) /\ augmented_grammar.prods[k] = grammar.prods[k]
        /\ Len(augmented_grammar.keys) = Len(grammar.keys) + 1
        /\ augmented_grammar.keys[1] \notin Keys(grammar)
        /\ augmented_grammar.prods[augmented_grammar.keys[1]] = << <<grammar.keys[1]>> >>

\* The items over the productions of a grammar.
ItemUniverse(g) ==
    UNION {UNION {{<<n, g.prods[n][p], d>> : d \in 0..Len(g.prods[n][p])} :
                  p \in DOMAIN g.prods[n]} : n \in Keys(g)}

\* The subsets of U with at most n elements.
RECURSIVE SetsUpTo(_, _)
SetsUpTo(U, n) ==
    IF n = 0 THEN {{}}
    ELSE SetsUpTo(U, n - 1) \cup {T \cup {x} : T \in SetsUpTo(U, n - 1), x \in U}

\* C7: closure of an item set is its least closed superset and closing it
\* again changes nothing, for every item set of at most MaxSeed items of the
\* grammar and for every call the automaton construction makes; every stored
\* state equals its own closure.
C7_ClosureLeastFixpoint ==
    /\ (pc \in {"closure_init", "closure_goto"} /\ ~added) =>
          /\ IsLeastClosure(closure_set, ClosureSeed, augmented_grammar)
          /\ closure(closure_set, augmented_grammar) = closure_set
    /\ pc = "lr0" =>
          \A S \in SetsUpTo(ItemUniverse(augmented_grammar), MaxSeed) :
              /\ IsLeastClosure(closure(S, augmented_grammar), S, augmented_grammar)
              /\ closure(closure(S, augmented_grammar), augmented_grammar)
                    = closure(S, augmented_grammar)
    /\ \A i \in DOMAIN states :
          /\ IsClosed(states[i], augmented_grammar)
          /\ closure(states[i], augmented_grammar) = states[i]

C7_Witness ==
    /\ pc = "closure_goto"
    /\ ~added
    /\ Cardinality(closure_set \ ClosureSeed) >= 2
    /\ Len(states) >= 2

\* C8: for the grammar S -> A B, A -> a | epsilon, B -> b: FIRST(A) is {a,
\* epsilon}, FOLLOW(A) holds b, state 0 holds the item A -> . with an empty
\* right-hand side, cell (0, b) is the reduction by it, and no right-hand side
\* holds a symbol named epsilon.
C8_NullableAlternative ==
    (pc = "done" /\ grammar_input \in {SidebarExample, EmptyAltExample}) =>
        /\ first["A"] = {"a", Epsilon}
        /\ "b" \in follow["A"]
        /\ <<"A", <<>>, 0>> \in StateOf(0)
        /\ "b" \in DOMAIN parsing_table[1]
        /\ parsing_table[1]["b"] = Reduce("A", <<>>)
        /\ \A i \in DOMAIN states : \A it \in states[i] : Epsilon \notin Range(Rhs(it))
        /\ \A k \in DOMAIN transitions : k[2] # Epsilon

\* The same for the text that writes the nullable alternative as an empty
\* alternative.
EmptyAlternativeIsNullable ==
    (pc = "done" /\ grammar_input = EmptyAltExample) =>
        /\ first["A"] = {"a", Epsilon}
        /\ "b" \in follow["A"]
        /\ <<"A", <<>>, 0>> \in StateOf(0)
        /\ "b" \in DOMAIN parsing_table[1]
        /\ parsing_table[1]["b"] = Reduce("A", <<>>)

\* C9: for the grammar E -> E + T | T, T -> T * F | F, F -> ( E ) | id, table
\* construction never replaces the action of a cell by a different one, and in
\* the result cell (0, id) is Shift(n) where state n is exactly {F -> id .}.
C9_ClassicGrammar ==
    /\ [](  (pc = "done" /\ grammar_input = ClassicText) =>
              /\ "id" \in DOMAIN parsing_table[1]
              /\ parsing_table[1]["id"].kind = "S"
              /\ StateOf(parsing_table[1]["id"].target) = {<<"F", <<"id">>, 1>>})
    /\ [][(pc = "items" /\ grammar_input = ClassicText) =>
             \A s \in DOMAIN parsing_table : \A t \in DOMAIN parsing_table[s] :
                 parsing_table'[s][t] = parsing_table[s][t]]_vars

C9_Witness ==
    /\ pc = "done"
    /\ grammar_input = ClassicText
    /\ Len(states) = 12
    /\ \E s \in DOMAIN parsing_table : \E t \in DOMAIN parsing_table[s] :
          parsing_table[s][t].kind = "R"

\* C10: every call of closure returns and the worklist loop of
\* generate_lr0_items ends; a state is appended to the queue only when it is
\* new, and the number of states is at most the number of item sets.
C10_Termination ==
    /\ (pc = "closure_init") ~> (pc = "while")
    /\ (pc = "closure_goto") ~> (pc \in {"while", "for"})
    /\ (pc = "lr0") ~> (pc = "first")
    /\ [][(InLr0 /\ Len(queue') > Len(queue)) =>
             /\ queue' = Append(queue, states'[Len(states')])
             /\ states'[Len(states')] \notin Range(states)]_vars
    /\ [](AfterAugment =>
             /\ Len(states) <= 2 ^ Cardinality(ItemUniverse(augmented_grammar))
             /\ \A i, j \in DOMAIN queue : queue[i] = queue[j] => i = j
             /\ Range(queue) \subseteq Range(states))

C10_Witness ==
    /\ pc = "first"
    /\ queue = <<>>
    /\ Len(states) >= 4

====
